---- MODULE Spec2Model ----
(***************************************************************************)
(* Firework burst engine and pinch gesture reducer of happynewyear         *)
(* (src/script.js).  The two pages of src/unnamed/part_000 carry the same  *)
(* Firework class, registry loop and reducer with other constants.         *)
(*                                                                         *)
(* Units: timestamps and Firework.time are kept in milliseconds (the code  *)
(* divides the timestamp difference by 1000 and compares seconds with      *)
(* FIREWORK_LIFETIME; here both sides are multiplied by 1000).  Landmark   *)
(* coordinates are hundredths of the normalised image range [0,1].  World  *)
(* coordinates are tenths of a world unit.                                 *)
(***************************************************************************)
EXTENDS Integers, Sequences, FiniteSets, TLC

VARIABLES
    lastTime,         \* let lastTime
    heap,             \* every Firework constructed so far; identity = index
    activeFireworks,  \* const activeFireworks: references into heap
    lastPinchState,   \* let lastPinchState
    statusText,       \* statusElement.innerText
    viewport,         \* window.innerWidth, window.innerHeight
    started,          \* the script has run to its last statement, animate(0)
    updateLog,        \* history: the update() calls of the handler that ran last
    heapAtTick,       \* history: Len(heap) when the last animate() returned
    probe,            \* one Firework of one of the pages and one of its particles
    frameRequested,   \* a requestAnimationFrame(animate) callback is pending
    throws            \* history: the handler calls that ended in an exception

vars == <<lastTime, heap, activeFireworks, lastPinchState, statusText,
          viewport, started, updateLog, heapAtTick, probe, frameRequested,
          throws>>

----------------------------------------------------------------------------
(* Bounds of the model *)

\* total number of Firework objects constructed in a behaviour
MaxFireworks == 2
\* timestamps of requestAnimationFrame callbacks advance in multiples of this
Quantum == 1000
\* largest ordinary frame gap, in quanta
MaxSteps == 2
\* frame gap after a suspended tab resumes (ms)
ResumeGap == 4000
\* last timestamp of the modelled horizon (ms)
MaxTime == 5000
\* update calls on the probed Firework pass multiples of this (ms)
ProbeStep == 100
\* largest delta passed to the probed Firework, in steps
MaxProbeSteps == 2
\* handler calls of a behaviour that end in an exception
MaxThrows == 1

----------------------------------------------------------------------------
(* Program constants *)

\* FIREWORK_LIFETIME = 3.0 seconds, in milliseconds
FIREWORK_LIFETIME == 3000
\* FIREWORK_LIFETIME = 2.5 of the page whose update flickers
FIREWORK_LIFETIME_Flicker == 2500
\* distance < 0.05, in hundredths
PinchThreshold == 5
\* palmDistance > 0.1, in hundredths
SpreadThreshold == 10
\* hands.setOptions({ maxNumHands: 1 })
MaxNumHands == 1
\* scale of the linear screen-to-world mapping
ScaleX == 100
ScaleY == 60

\* material.opacity is kept in units of 1/15000, so that time / lifetime is
\* exact for both lifetimes: this is the opacity 1
OpacityOne == 15000
\* the opacity 0.2 of the flicker
FlickerOpacity == 3000

\* colours passed to launchFirework
SparkColor == 16724736
BurstColor == 16372771
PalmColor == 16777215
StarColor == 4473924
\* Math.random() * 0xffffff of the click listener: one value stands for all
ClickColor == 1193046

\* statusElement.innerText
StatusInitial == "initial"
StatusTracking == "tracking"
StatusPinching == "PINCHING"
StatusReleased == "RELEASED"
StatusPalmOpen == "PALM OPEN"
StatusIdle == "idle"

----------------------------------------------------------------------------
(* Inputs *)

\* a landmark is <<x, y>>; a hand carries landmarks 4, 8 and 12
IndexTips == {<<20, 50>>, <<50, 50>>}
\* thumb tip relative to the index tip: distances 3, 5 (= threshold) and 30
ThumbOffsets == {<<0, 3>>, <<3, 4>>, <<30, 0>>}
\* middle tip relative to the index tip: distances 10 (= threshold) and 11
MiddleOffsets == {<<6, 8>>, <<0, 11>>}

Hands ==
    { [thumbTip |-> <<i[1] + t[1], i[2] + t[2]>>,
       indexTip |-> i,
       middleTip |-> <<i[1] + m[1], i[2] + m[2]>>] :
         i \in IndexTips, t \in ThumbOffsets, m \in MiddleOffsets }

\* landmarks[k] of a landmark array that has no element k: no coordinates
Undefined == <<>>

\* hands whose landmark array lacks landmark 4, 8 or 12
PartialHands ==
    { [h EXCEPT !.thumbTip = Undefined] : h \in Hands }
      \cup { [h EXCEPT !.indexTip = Undefined] : h \in Hands }
      \cup { [h EXCEPT !.middleTip = Undefined] : h \in Hands }

\* results.multiHandLandmarks: absent or empty, or up to maxNumHands hands
Results == UNION { [1..n -> Hands] : n \in 0..MaxNumHands }

\* Math.random() draws of onResults for one hand: the palm draw (< 0.1) and
\* the three coordinates of the palm burst, already scaled
PalmDraws == { [hit |-> h, position |-> <<-400, 250, -200>>] : h \in BOOLEAN }

\* Math.random() draws of animate: the star draw (< 0.02) and its position
StarDraws == { [hit |-> h, position |-> <<600, -400, -500>>] : h \in BOOLEAN }

Viewports == { [innerWidth |-> 800, innerHeight |-> 600],
               [innerWidth |-> 400, innerHeight |-> 300] }

\* mouse events: the centre of the window and a point left of and above it
MouseEvents(vp) ==
    { [clientX |-> vp.innerWidth \div 2, clientY |-> vp.innerHeight \div 2],
      [clientX |-> vp.innerWidth \div 4, clientY |-> vp.innerHeight \div 4] }

----------------------------------------------------------------------------
(* Firework *)

\* the opacity without Math.max(0, ...)
opacityAt_NoMax(time, lifetime) ==
    OpacityOne - (time * OpacityOne) \div lifetime

\* Math.max(0, 1 - (this.time / FIREWORK_LIFETIME)) for this.time = time
opacityAt(time, lifetime) ==
    IF OpacityOne - (time * OpacityOne) \div lifetime > 0
    THEN OpacityOne - (time * OpacityOne) \div lifetime
    ELSE 0

\* new Firework(position, color): the object after the constructor; a
\* PointsMaterial made without an opacity has opacity 1
Firework(position, color) ==
    [ active |-> TRUE, time |-> 0, position |-> position, color |-> color,
      inScene |-> TRUE, disposed |-> 0, opacity |-> OpacityOne ]

\* update with time = delta instead of time += delta
update_AssignsDelta(fw, delta) ==
    IF ~fw.active THEN fw
    ELSE IF delta > FIREWORK_LIFETIME
         THEN [fw EXCEPT !.time = delta,
                         !.opacity = opacityAt(delta, FIREWORK_LIFETIME),
                         !.active = FALSE, !.inScene = FALSE, !.disposed = @ + 1]
         ELSE [fw EXCEPT !.time = delta,
                         !.opacity = opacityAt(delta, FIREWORK_LIFETIME)]

\* update with the expiry test written >= instead of >
update_ExpiresAtLifetime(fw, delta) ==
    IF ~fw.active THEN fw
    ELSE IF fw.time + delta >= FIREWORK_LIFETIME
         THEN [fw EXCEPT !.time = @ + delta,
                         !.opacity = opacityAt(fw.time + delta, FIREWORK_LIFETIME),
                         !.active = FALSE, !.inScene = FALSE, !.disposed = @ + 1]
         ELSE [fw EXCEPT !.time = @ + delta,
                         !.opacity = opacityAt(fw.time + delta, FIREWORK_LIFETIME)]

\* update that expires without scene.remove(this.points)
update_NoSceneRemove(fw, delta) ==
    IF ~fw.active THEN fw
    ELSE IF fw.time + delta > FIREWORK_LIFETIME
         THEN [fw EXCEPT !.time = @ + delta,
                         !.opacity = opacityAt(fw.time + delta, FIREWORK_LIFETIME),
                         !.active = FALSE, !.disposed = @ + 1]
         ELSE [fw EXCEPT !.time = @ + delta,
                         !.opacity = opacityAt(fw.time + delta, FIREWORK_LIFETIME)]

\* update that expires without this.active = false
update_StaysActive(fw, delta) ==
    IF ~fw.active THEN fw
    ELSE IF fw.time + delta > FIREWORK_LIFETIME
         THEN [fw EXCEPT !.time = @ + delta,
                         !.opacity = opacityAt(fw.time + delta, FIREWORK_LIFETIME),
                         !.inScene = FALSE, !.disposed = 1]
         ELSE [fw EXCEPT !.time = @ + delta,
                         !.opacity = opacityAt(fw.time + delta, FIREWORK_LIFETIME)]

\* Firework.update(delta): the object after the call
update(fw, delta) ==
    IF ~fw.active THEN fw
    ELSE IF fw.time + delta > FIREWORK_LIFETIME
         THEN [fw EXCEPT !.time = @ + delta,
                         !.opacity = opacityAt(fw.time + delta, FIREWORK_LIFETIME),
                         !.active = FALSE, !.inScene = FALSE, !.disposed = @ + 1]
         ELSE [fw EXCEPT !.time = @ + delta,
                         !.opacity = opacityAt(fw.time + delta, FIREWORK_LIFETIME)]

\* Firework.update(delta) of the first page of src/unnamed/part_000: the
\* text of script.js, lines 75-101
update_Part000(fw, delta) == update(fw, delta)

\* Firework.update(delta) of the page with the flicker; keep is the outcome
\* of Math.random() > 0.1
update_Flicker(fw, delta, keep) ==
    IF ~fw.active THEN fw
    ELSE IF fw.time + delta > FIREWORK_LIFETIME_Flicker
         THEN [fw EXCEPT !.time = @ + delta,
                         !.opacity = IF keep
                                     THEN opacityAt(fw.time + delta,
                                                    FIREWORK_LIFETIME_Flicker)
                                     ELSE FlickerOpacity,
                         !.active = FALSE, !.inScene = FALSE, !.disposed = @ + 1]
         ELSE [fw EXCEPT !.time = @ + delta,
                         !.opacity = IF keep
                                     THEN opacityAt(fw.time + delta,
                                                    FIREWORK_LIFETIME_Flicker)
                                     ELSE FlickerOpacity]

\* the pages and the update of the Firework class of each
Pages == {"script", "part_000", "flicker"}

\* the drag factors 0.97, 0.98 and 0.95 of the pages, in hundredths
DragScript == 97
DragPart000 == 98
DragFlicker == 95

dragOf(page) ==
    CASE page = "script" -> DragScript
      [] page = "part_000" -> DragPart000
      [] page = "flicker" -> DragFlicker

\* n / d rounded to the nearest integer: velocityData is a Float32Array, a
\* product is stored as the nearest value of the grid; the model's grid is
\* hundredths
roundDiv(n, d) ==
    IF n >= 0 THEN (2 * n + d) \div (2 * d)
    ELSE 0 - ((2 * (0 - n) + d) \div (2 * d))

\* gravity accumulated into the velocity: GRAVITY.y * delta * 20 is added to
\* velocityData[i * 3 + 1] before the drag
velocityAfter_WithGravity(page, velocityData, delta) ==
    << roundDiv(velocityData[1] * dragOf(page), 100),
       roundDiv((velocityData[2] - delta \div 10) * dragOf(page), 100),
       roundDiv(velocityData[3] * dragOf(page), 100) >>

\* velocityData of one particle after the particle loop of update(delta):
\* this.velocityData[i * 3 + c] *= 0.97 for c = 0, 1, 2
velocityAfter(page, velocityData, delta) ==
    [ c \in 1..3 |-> roundDiv(velocityData[c] * dragOf(page), 100) ]

updateOf(page, fw, delta, keep) ==
    CASE page = "script" -> update(fw, delta)
      [] page = "part_000" -> update_Part000(fw, delta)
      [] page = "flicker" -> update_Flicker(fw, delta, keep)

----------------------------------------------------------------------------
(* The registry.  An engine state eng is [heap, active]: heap is the       *)
(* sequence of all Firework objects constructed so far, active is the      *)
(* array activeFireworks of references into it.                            *)

\* a registry that refuses a request while it holds a Firework
launchFirework_Capped(eng, position, color) ==
    IF Len(eng.active) >= 1 THEN eng
    ELSE [ heap |-> Append(eng.heap, Firework(position, color)),
           active |-> Append(eng.active, Len(eng.heap) + 1) ]

\* activeFireworks.unshift instead of push
launchFirework_Unshift(eng, position, color) ==
    [ heap |-> Append(eng.heap, Firework(position, color)),
      active |-> <<Len(eng.heap) + 1>> \o eng.active ]

\* the array assigned instead of pushed to
launchFirework_Replace(eng, position, color) ==
    [ heap |-> Append(eng.heap, Firework(position, color)),
      active |-> <<Len(eng.heap) + 1>> ]

\* activeFireworks.push(new Firework(new THREE.Vector3(x, y, z), color))
launchFirework(eng, position, color) ==
    [ heap |-> Append(eng.heap, Firework(position, color)),
      active |-> Append(eng.active, Len(eng.heap) + 1) ]

\* Array.prototype.splice(start, 1), start counted from 0
splice(a, start) ==
    [ k \in 1..(Len(a) - 1) |-> IF k <= start THEN a[k] ELSE a[k + 1] ]

\* A Firework spliced out of activeFireworks is referenced from nowhere: it
\* is garbage, and the model keeps only what the renderer saw of it.
Collected(fw) ==
    [ active |-> fw.active, inScene |-> fw.inScene, disposed |-> fw.disposed,
      opacity |-> fw.opacity ]

\* the loop body without the splice: a dead Firework stays in the array
loopBody_NoSplice(st, i, delta) ==
    [ heap |-> [st.heap EXCEPT ![st.active[i + 1]] = update(@, delta)],
      active |-> st.active,
      log |-> Append(st.log, [id |-> st.active[i + 1],
                              time |-> update(st.heap[st.active[i + 1]], delta).time]) ]

\* activeFireworks[i].update(delta); if (!activeFireworks[i].active) splice
\* st is [heap, active, log]; log lists the update calls: the object and
\* its time when the call returns
loopBody(st, i, delta) ==
    [ heap |-> [st.heap EXCEPT ![st.active[i + 1]] =
                  IF update(@, delta).active THEN update(@, delta)
                  ELSE Collected(update(@, delta))],
      active |-> IF update(st.heap[st.active[i + 1]], delta).active
                 THEN st.active ELSE splice(st.active, i),
      log |-> Append(st.log, [id |-> st.active[i + 1],
                              time |-> update(st.heap[st.active[i + 1]], delta).time]) ]

\* the loop written forwards: for (let k = 0; k < length; k++) {...}
RECURSIVE forwardFrom(_, _, _)
forwardFrom(st, k, delta) ==
    IF k >= Len(st.active) THEN st
    ELSE forwardFrom(loopBody(st, k, delta), k + 1, delta)

whileLoop_Forward(st, i, delta) == forwardFrom(st, 0, delta)

\* let i = activeFireworks.length; while (i--) {...}
RECURSIVE whileLoop(_, _, _)
whileLoop(st, i, delta) ==
    IF i = 0 THEN st ELSE whileLoop(loopBody(st, i - 1, delta), i - 1, delta)

----------------------------------------------------------------------------
(* Gesture reducer.  A reducer state g is [heap, active, pinch, status].   *)

\* squared distance of two landmarks; the code compares the square root
\* with the threshold, the model compares the squares
distanceSq(a, b) == (a[1] - b[1]) * (a[1] - b[1]) + (a[2] - b[2]) * (a[2] - b[2])

\* the mapping without the mirror: (indexTip.x - 0.5) * 100
worldPoint_Unmirrored(indexTip) ==
    << ((indexTip[1] - 50) * ScaleX) \div 10,
       ((50 - indexTip[2]) * ScaleY) \div 10,
       0 >>

\* worldX = (0.5 - indexTip.x) * 100, worldY = (0.5 - indexTip.y) * 60,
\* worldZ = 0
worldPoint(indexTip) ==
    << ((50 - indexTip[1]) * ScaleX) \div 10,
       ((50 - indexTip[2]) * ScaleY) \div 10,
       0 >>

\* launchFirework called from onResults
launchIn(g, position, color) ==
    [g EXCEPT !.heap = Append(@, Firework(position, color)),
              !.active = launchFirework([heap |-> g.heap, active |-> g.active],
                                        position, color).active]

\* the spark debounced: spawned only when the pinch begins
pinchBranch_RisingEdgeOnly(g, hand) ==
    IF distanceSq(hand.thumbTip, hand.indexTip) < PinchThreshold * PinchThreshold
    THEN IF g.pinch THEN [g EXCEPT !.status = StatusPinching]
         ELSE [launchIn(g, worldPoint(hand.indexTip), SparkColor)
                 EXCEPT !.status = StatusPinching, !.pinch = TRUE]
    ELSE IF g.pinch
    THEN [launchIn(g, worldPoint(hand.indexTip), BurstColor)
            EXCEPT !.pinch = FALSE, !.status = StatusReleased]
    ELSE g

\* the release branch without lastPinchState = false
pinchBranch_NoReset(g, hand) ==
    IF distanceSq(hand.thumbTip, hand.indexTip) < PinchThreshold * PinchThreshold
    THEN [launchIn(g, worldPoint(hand.indexTip), SparkColor)
            EXCEPT !.status = StatusPinching, !.pinch = TRUE]
    ELSE IF g.pinch
    THEN [launchIn(g, worldPoint(hand.indexTip), BurstColor)
            EXCEPT !.status = StatusReleased]
    ELSE g

\* if (distance < 0.05) {...} else if (lastPinchState) {...}
pinchBranch(g, hand) ==
    IF distanceSq(hand.thumbTip, hand.indexTip) < PinchThreshold * PinchThreshold
    THEN [launchIn(g, worldPoint(hand.indexTip), SparkColor)
            EXCEPT !.status = StatusPinching, !.pinch = TRUE]
    ELSE IF g.pinch
    THEN [launchIn(g, worldPoint(hand.indexTip), BurstColor)
            EXCEPT !.pinch = FALSE, !.status = StatusReleased]
    ELSE g

\* the palm branch ending a pinch: lastPinchState = false
palmBranch_ResetsPinch(g, hand, draw) ==
    IF /\ distanceSq(hand.indexTip, hand.middleTip) > SpreadThreshold * SpreadThreshold
       /\ draw.hit
    THEN [launchIn(g, draw.position, PalmColor)
            EXCEPT !.status = StatusPalmOpen, !.pinch = FALSE]
    ELSE g

\* if (palmDistance > 0.1 && Math.random() < 0.1) {...}
palmBranch(g, hand, draw) ==
    IF /\ distanceSq(hand.indexTip, hand.middleTip) > SpreadThreshold * SpreadThreshold
       /\ draw.hit
    THEN [launchIn(g, draw.position, PalmColor) EXCEPT !.status = StatusPalmOpen]
    ELSE g

\* for (const landmarks of results.multiHandLandmarks) {...}, from hand k on
RECURSIVE forHands(_, _, _, _)
forHands(g, results, draws, k) ==
    IF k > Len(results) THEN g
    ELSE forHands(palmBranch(pinchBranch(g, results[k]), results[k], draws[k]),
                  results, draws, k + 1)

\* onResults that resets the pinch state when no hand is seen
onResults_ResetOnNoHand(g, results, draws) ==
    IF Len(results) > 0
    THEN forHands([g EXCEPT !.status = StatusTracking], results, draws, 1)
    ELSE [g EXCEPT !.status = StatusIdle, !.pinch = FALSE]

\* onResults that forgets the pinch when a hand reappears after no hand
onResults_ForgetsOnReappear(g, results, draws) ==
    IF Len(results) > 0
    THEN forHands([g EXCEPT !.status = StatusTracking,
                            !.pinch = IF g.status = StatusIdle THEN FALSE ELSE @],
                  results, draws, 1)
    ELSE [g EXCEPT !.status = StatusIdle]

\* onResults(results): the reducer state after the callback
onResults(g, results, draws) ==
    IF Len(results) > 0
    THEN forHands([g EXCEPT !.status = StatusTracking], results, draws, 1)
    ELSE [g EXCEPT !.status = StatusIdle]

\* onResults(results) for one hand that lacks a landmark: the reducer state
\* when the TypeError leaves the callback.  thumbTip.x and indexTip.x are
\* read in line 131, before the pinch branch; middleTip.x in line 151,
\* after it
onResultsThrows(g, hand) ==
    IF hand.thumbTip = Undefined \/ hand.indexTip = Undefined
    THEN [g EXCEPT !.status = StatusTracking]
    ELSE pinchBranch([g EXCEPT !.status = StatusTracking], hand)

----------------------------------------------------------------------------
(* Pointer *)

\* the click mapping without the minus sign of y
clickPoint_NoFlipY(e, vp) ==
    << (e.clientX * ScaleX * 10) \div vp.innerWidth - ScaleX * 5,
       (e.clientY * ScaleY * 10) \div vp.innerHeight - ScaleY * 5,
       0 >>

\* the click mapping without the - 0.5
clickPoint_NoCentre(e, vp) ==
    << (e.clientX * ScaleX * 10) \div vp.innerWidth,
       -((e.clientY * ScaleY * 10) \div vp.innerHeight),
       0 >>

\* x = (e.clientX / window.innerWidth - 0.5) * 100
\* y = -(e.clientY / window.innerHeight - 0.5) * 60
\* (the events of MouseEvents divide without remainder)
clickPoint(e, vp) ==
    << (e.clientX * ScaleX * 10) \div vp.innerWidth - ScaleX * 5,
       -((e.clientY * ScaleY * 10) \div vp.innerHeight - ScaleY * 5),
       0 >>

----------------------------------------------------------------------------
(* Horizon of the model *)

\* a Firework is only constructed while its whole lifetime fits the horizon
\* and at most MaxFireworks objects exist; n is the number after the call
CanLaunch(n, t) ==
    /\ n <= MaxFireworks
    /\ t + FIREWORK_LIFETIME + Quantum <= MaxTime

\* timestamps requestAnimationFrame may pass after timestamp t
NextTimes(t) ==
    { u \in { t + k * Quantum : k \in 0..MaxSteps } \cup { t + ResumeGap } :
        u <= MaxTime }

----------------------------------------------------------------------------
(* State machine.  \E over a singleton binds a value computed once.        *)

\* no Firework is probed while the page runs
NoProbe == [page |-> "none"]

Init ==
    /\ lastTime = 0
    /\ heap = <<>>
    /\ activeFireworks = <<>>
    /\ lastPinchState = FALSE
    /\ statusText = StatusInitial
    /\ viewport \in Viewports
    /\ started = FALSE
    /\ updateLog = <<>>
    /\ heapAtTick = 0
    /\ probe = NoProbe
    /\ frameRequested = FALSE
    /\ throws = 0

\* animate with the background star launched before the registry loop
Animate_SpawnFirst(time, draw) ==
    /\ lastTime' = time
    /\ started' = TRUE
    /\ frameRequested' = TRUE
    /\ UNCHANGED <<lastPinchState, statusText, viewport, probe, throws>>
    /\ \E e1 \in {IF draw.hit
                  THEN launchFirework([heap |-> heap, active |-> activeFireworks],
                                      draw.position, StarColor)
                  ELSE [heap |-> heap, active |-> activeFireworks]} :
       \E st \in {whileLoop([heap |-> e1.heap, active |-> e1.active, log |-> <<>>],
                            Len(e1.active), time - lastTime)} :
          /\ draw.hit => CanLaunch(Len(st.heap), time)
          /\ heap' = st.heap
          /\ activeFireworks' = st.active
          /\ updateLog' = st.log
          /\ heapAtTick' = Len(st.heap)

\* animate with the star test inverted: Math.random() > 0.02
Animate_StarOnMiss(time, draw) ==
    /\ lastTime' = time
    /\ started' = TRUE
    /\ frameRequested' = TRUE
    /\ UNCHANGED <<lastPinchState, statusText, viewport, probe, throws>>
    /\ \E st \in {whileLoop([heap |-> heap, active |-> activeFireworks, log |-> <<>>],
                            Len(activeFireworks), time - lastTime)} :
       \E e2 \in {IF ~draw.hit
                  THEN launchFirework([heap |-> st.heap, active |-> st.active],
                                      draw.position, StarColor)
                  ELSE [heap |-> st.heap, active |-> st.active]} :
          /\ ~draw.hit => CanLaunch(Len(e2.heap), time)
          /\ heap' = e2.heap
          /\ activeFireworks' = e2.active
          /\ updateLog' = st.log
          /\ heapAtTick' = Len(e2.heap)

\* animate with delta clamped to one quantum
Animate_ClampsDelta(time, draw) ==
    /\ lastTime' = time
    /\ started' = TRUE
    /\ frameRequested' = TRUE
    /\ UNCHANGED <<lastPinchState, statusText, viewport, probe, throws>>
    /\ \E st \in {whileLoop([heap |-> heap, active |-> activeFireworks, log |-> <<>>],
                            Len(activeFireworks),
                            IF time - lastTime > Quantum THEN Quantum
                            ELSE time - lastTime)} :
       \E e2 \in {IF draw.hit
                  THEN launchFirework([heap |-> st.heap, active |-> st.active],
                                      draw.position, StarColor)
                  ELSE [heap |-> st.heap, active |-> st.active]} :
          /\ draw.hit => CanLaunch(Len(e2.heap), time)
          /\ heap' = e2.heap
          /\ activeFireworks' = e2.active
          /\ updateLog' = st.log
          /\ heapAtTick' = Len(e2.heap)

\* animate(time): the registry loop, then the background star
Animate(time, draw) ==
    /\ lastTime' = time
    /\ started' = TRUE
    /\ frameRequested' = TRUE
    /\ UNCHANGED <<lastPinchState, statusText, viewport, probe, throws>>
    /\ \E st \in {whileLoop([heap |-> heap, active |-> activeFireworks, log |-> <<>>],
                            Len(activeFireworks), time - lastTime)} :
       \E e2 \in {IF draw.hit
                  THEN launchFirework([heap |-> st.heap, active |-> st.active],
                                      draw.position, StarColor)
                  ELSE [heap |-> st.heap, active |-> st.active]} :
          /\ draw.hit => CanLaunch(Len(e2.heap), time)
          /\ heap' = e2.heap
          /\ activeFireworks' = e2.active
          /\ updateLog' = st.log
          /\ heapAtTick' = Len(e2.heap)

\* the registry loop from index i - 1 down to index k
RECURSIVE loopDownTo(_, _, _, _)
loopDownTo(st, i, k, delta) ==
    IF i <= k THEN st
    ELSE loopDownTo(loopBody(st, i - 1, delta), i - 1, k, delta)

\* where an exception leaves update: before this.time += delta, or in the
\* particle loop after it
ThrowPoints == {"entry", "particles"}

\* Firework.update(delta) left by an exception: the object as it is then
updateThrows(fw, delta, at) ==
    IF at = "entry" THEN fw ELSE [fw EXCEPT !.time = @ + delta]

\* animate with requestAnimationFrame(animate) as its last statement
AnimateThrows_RequestLast(time, k, at) ==
    /\ lastTime' = time
    /\ started' = TRUE
    /\ frameRequested' = FALSE
    /\ throws' = throws + 1
    /\ UNCHANGED <<lastPinchState, statusText, viewport, probe>>
    /\ \E st \in {loopDownTo([heap |-> heap, active |-> activeFireworks,
                               log |-> <<>>],
                              Len(activeFireworks), k + 1, time - lastTime)} :
       \E fw \in {updateThrows(st.heap[st.active[k + 1]], time - lastTime, at)} :
          /\ heap' = [st.heap EXCEPT ![st.active[k + 1]] = fw]
          /\ activeFireworks' = st.active
          /\ updateLog' = Append(st.log, [id |-> st.active[k + 1], time |-> fw.time])
          /\ heapAtTick' = Len(st.heap)

\* animate(time) in which activeFireworks[k].update(delta) throws: lastTime
\* is set and the next frame requested (lines 200, 202), the loop has run
\* from the last index down to k, and the rest of animate is skipped
AnimateThrows(time, k, at) ==
    /\ lastTime' = time
    /\ started' = TRUE
    /\ frameRequested' = TRUE
    /\ throws' = throws + 1
    /\ UNCHANGED <<lastPinchState, statusText, viewport, probe>>
    /\ \E st \in {loopDownTo([heap |-> heap, active |-> activeFireworks,
                               log |-> <<>>],
                              Len(activeFireworks), k + 1, time - lastTime)} :
       \E fw \in {updateThrows(st.heap[st.active[k + 1]], time - lastTime, at)} :
          /\ heap' = [st.heap EXCEPT ![st.active[k + 1]] = fw]
          /\ activeFireworks' = st.active
          /\ updateLog' = Append(st.log, [id |-> st.active[k + 1], time |-> fw.time])
          /\ heapAtTick' = Len(st.heap)

\* the animate(0) call that ends the script
Start ==
    /\ ~started
    /\ \E draw \in StarDraws : Animate(0, draw)

\* a requestAnimationFrame callback: the pending request is served
Frame ==
    /\ frameRequested
    /\ \E time \in NextTimes(lastTime), draw \in StarDraws : Animate(time, draw)

\* hands delivers results to onResults; draws are its Math.random() values
Deliver(results, draws) ==
    /\ UNCHANGED <<lastTime, viewport, started, heapAtTick, probe,
                   frameRequested, throws>>
    /\ updateLog' = <<>>
    /\ \E g \in {onResults([heap |-> heap, active |-> activeFireworks,
                            pinch |-> lastPinchState, status |-> statusText],
                           results, draws)} :
          /\ Len(g.heap) > Len(heap) => CanLaunch(Len(g.heap), lastTime)
          /\ heap' = g.heap
          /\ activeFireworks' = g.active
          /\ lastPinchState' = g.pinch
          /\ statusText' = g.status

OnResults ==
    /\ started
    /\ \E results \in Results :
       \E draws \in [1..Len(results) -> PalmDraws] : Deliver(results, draws)

\* hands delivers a hand that lacks a landmark: onResults throws
DeliverPartial(hand) ==
    /\ UNCHANGED <<lastTime, viewport, started, heapAtTick, probe,
                   frameRequested>>
    /\ updateLog' = <<>>
    /\ throws' = throws + 1
    /\ \E g \in {onResultsThrows([heap |-> heap, active |-> activeFireworks,
                                  pinch |-> lastPinchState, status |-> statusText],
                                 hand)} :
          /\ Len(g.heap) > Len(heap) => CanLaunch(Len(g.heap), lastTime)
          /\ heap' = g.heap
          /\ activeFireworks' = g.active
          /\ lastPinchState' = g.pinch
          /\ statusText' = g.status

OnPartialResults ==
    /\ started
    /\ throws < MaxThrows
    /\ \E hand \in PartialHands : DeliverPartial(hand)

\* the mousedown listener
Click(e) ==
    \E e2 \in {launchFirework([heap |-> heap, active |-> activeFireworks],
                              clickPoint(e, viewport), ClickColor)} :
       /\ CanLaunch(Len(e2.heap), lastTime)
       /\ heap' = e2.heap
       /\ activeFireworks' = e2.active
       /\ updateLog' = <<>>
       /\ UNCHANGED <<lastTime, lastPinchState, statusText, viewport, started,
                      heapAtTick, probe, frameRequested, throws>>

MouseDown ==
    /\ started
    /\ \E e \in MouseEvents(viewport) : Click(e)

\* a resize listener that empties the array
Resize_ClearsRegistry ==
    /\ started
    /\ \E vp \in Viewports \ {viewport} :
         /\ viewport' = vp
         /\ updateLog' = <<>>
         /\ activeFireworks' = <<>>
         /\ UNCHANGED <<lastTime, heap, lastPinchState,
                        statusText, started, heapAtTick, probe,
                        frameRequested, throws>>

\* the resize listener: the window has a new size
Resize ==
    /\ started
    /\ \E vp \in Viewports \ {viewport} :
         /\ viewport' = vp
         /\ updateLog' = <<>>
         /\ UNCHANGED <<lastTime, heap, activeFireworks, lastPinchState,
                        statusText, started, heapAtTick, probe,
                        frameRequested, throws>>

Next == Start \/ Frame \/ OnResults \/ MouseDown \/ Resize

Spec == Init /\ [][Next]_vars

\* a requestAnimationFrame callback in which an update call throws
FrameThrows ==
    /\ frameRequested
    /\ throws < MaxThrows
    /\ \E time \in NextTimes(lastTime), k \in 0..(Len(activeFireworks) - 1),
          at \in ThrowPoints :
         AnimateThrows(time, k, at)

\* the page with exceptions in update
FaultNext == Start \/ Frame \/ OnResults \/ MouseDown \/ Resize \/ FrameThrows

FaultSpec == Init /\ [][FaultNext]_vars

\* the page with results that lack landmarks
PartialNext ==
    Start \/ Frame \/ OnResults \/ MouseDown \/ Resize \/ OnPartialResults

PartialSpec == Init /\ [][PartialNext]_vars

\* a requestAnimationFrame callback whose timestamp is later than the last
FramePositive ==
    /\ frameRequested
    /\ \E time \in NextTimes(lastTime) \ {lastTime}, draw \in StarDraws :
         Animate(time, draw)

\* every animate call requests the next frame: the script reaches animate(0)
\* and frames with a later timestamp keep coming
FairSpec == Spec /\ WF_vars(Start) /\ WF_vars(FramePositive)

----------------------------------------------------------------------------
(* One Firework by itself: a Firework of one of the pages is constructed   *)
(* and update is called on it with any deltas and any flicker draws.       *)

ProbeDeltas == { k * ProbeStep : k \in 0..MaxProbeSteps }

\* velocities of a particle after the constructor, in hundredths: speed
\* times a point of the unit sphere, speed in [1.5, 4)
ProbeVelocities == { <<300, 0, 0>>, <<-90, 120, 200>>, <<0, -250, 0>> }

ProbeInit ==
    /\ lastTime = 0
    /\ heap = <<>>
    /\ activeFireworks = <<>>
    /\ lastPinchState = FALSE
    /\ statusText = StatusInitial
    /\ viewport = [innerWidth |-> 800, innerHeight |-> 600]
    /\ started = FALSE
    /\ updateLog = <<>>
    /\ heapAtTick = 0
    /\ frameRequested = FALSE
    /\ throws = 0
    /\ probe \in { [page |-> p, fw |-> Firework(<<0, 0, 0>>, ClickColor),
                    velocityData |-> v] :
                      p \in Pages, v \in ProbeVelocities }

\* probe.fw.update(delta)
ProbeUpdate ==
    /\ \E delta \in ProbeDeltas, keep \in BOOLEAN :
         probe' = [probe EXCEPT
                     !.fw = updateOf(probe.page, @, delta, keep),
                     !.velocityData = IF probe.fw.active
                                      THEN velocityAfter(probe.page, @, delta)
                                      ELSE @]
    /\ UNCHANGED <<lastTime, heap, activeFireworks, lastPinchState, statusText,
                   viewport, started, updateLog, heapAtTick, frameRequested,
                   throws>>

ProbeNext == ProbeUpdate

ProbeSpec == ProbeInit /\ [][ProbeNext]_vars

----------------------------------------------------------------------------
(* Vocabulary of the properties *)

\* the Firework with identity id is referenced from the array a
InRegistry(a, id) == \E k \in 1..Len(a) : a[k] = id

\* the positions of the update log that name the Firework id
LogEntries(log, id) == { k \in 1..Len(log) : log[k].id = id }

\* a step that is one call of animate
TickStep == Start \/ Frame

\* the Fireworks constructed by the step
NewIds == (Len(heap) + 1)..Len(heap')

\* results with one hand, and the Math.random() draws that go with them
OneHand == { r \in Results : Len(r) = 1 }
DrawsFor(r) == [1..Len(r) -> PalmDraws]

\* the Fireworks of the pinch branch (spark or release) among those
\* constructed since the last tick, in heap h
PinchBurstsSinceTick(h) ==
    { id \in (heapAtTick + 1)..Len(h) :
        h[id].active /\ h[id].color \in {SparkColor, BurstColor} }

\* the hand's thumb tip and index tip are closer than 0.05
IsPinch(hand) ==
    distanceSq(hand.thumbTip, hand.indexTip) < PinchThreshold * PinchThreshold

----------------------------------------------------------------------------
(* C1: a Burst leaves the Registry exactly once, in the first tick after   *)
(* which its age exceeds the lifetime.  Step by step: a Burst that is out  *)
(* of the Registry never comes back; a Burst leaves only in a step whose   *)
(* update call returned with time > FIREWORK_LIFETIME; and after a tick a  *)
(* Burst it advanced is out of the Registry exactly if its time exceeds    *)
(* FIREWORK_LIFETIME.                                                      *)
C1_RemovedOnceWhenExpired ==
    [][ \A id \in 1..Len(heap) :
          /\ ~InRegistry(activeFireworks, id) => ~InRegistry(activeFireworks', id)
          /\ (InRegistry(activeFireworks, id) /\ ~InRegistry(activeFireworks', id))
               => \E k \in LogEntries(updateLog', id) :
                     updateLog'[k].time > FIREWORK_LIFETIME
          /\ (TickStep /\ InRegistry(activeFireworks, id))
               => /\ LogEntries(updateLog', id) # {}
                  /\ \A k \in LogEntries(updateLog', id) :
                       (updateLog'[k].time > FIREWORK_LIFETIME)
                         <=> ~InRegistry(activeFireworks', id)
      ]_vars

\* a tick has removed one Burst and kept another whose age equals the lifetime
C1_Witness ==
    /\ \E k \in 1..Len(updateLog) : updateLog[k].time > FIREWORK_LIFETIME
    /\ \E k \in 1..Len(updateLog) :
         /\ updateLog[k].time = FIREWORK_LIFETIME
         /\ InRegistry(activeFireworks, updateLog[k].id)

----------------------------------------------------------------------------
(* C2: within one tick update is called exactly once on every Burst that   *)
(* is in the Registry when the tick starts, and on nothing else, however   *)
(* many of them expire and are spliced out during the tick.                *)
C2_EachBurstAdvancedOnce ==
    [][ TickStep =>
          /\ \A id \in 1..Len(heap) :
               InRegistry(activeFireworks, id)
                 => Cardinality(LogEntries(updateLog', id)) = 1
          /\ \A k \in 1..Len(updateLog') :
               InRegistry(activeFireworks, updateLog'[k].id)
          /\ Len(updateLog') = Len(activeFireworks)
      ]_vars

\* a tick in which both Bursts of the Registry expired, and were advanced
C2_Witness ==
    /\ Len(updateLog) = 2
    /\ updateLog[1].id # updateLog[2].id
    /\ \A k \in 1..2 : updateLog[k].time > FIREWORK_LIFETIME
    /\ activeFireworks = <<>>

----------------------------------------------------------------------------
(* C3: on a landmark frame the reducer emits a PinchRelease burst exactly  *)
(* if the pinch distance is not below the threshold and the stored state   *)
(* is PINCHING; it emits one, and the state is NOT_PINCHING after every    *)
(* frame that is not a pinch, so the next such frame emits none.           *)
C3_ReleaseOnFallingEdge ==
    [][ \A r \in OneHand : \A d \in DrawsFor(r) :
          (started /\ Deliver(r, d)) =>
             LET released == { id \in NewIds : heap'[id].color = BurstColor }
             IN /\ (released # {}) <=> (~IsPinch(r[1]) /\ lastPinchState)
                /\ Cardinality(released) <= 1
                /\ ~IsPinch(r[1]) => ~lastPinchState'
      ]_vars

\* a pinch, its release, and then a further frame without pinch: one release
C3_Witness ==
    /\ activeFireworks = <<1, 2>>
    /\ heap[1].color = SparkColor
    /\ heap[2].color = BurstColor
    /\ statusText = StatusTracking
    /\ ~lastPinchState

----------------------------------------------------------------------------
(* C4: every landmark frame whose pinch distance is below the threshold    *)
(* spawns exactly one spark burst, at the world point                      *)
(* ((0.5 - x) * 100, (0.5 - y) * 60, 0) of its index tip, spawns no        *)
(* PinchRelease burst and leaves the state PINCHING, whatever the state    *)
(* was before: N held frames give N sparks.                                *)
C4_SparkOnEveryPinchFrame ==
    [][ \A r \in OneHand : \A d \in DrawsFor(r) :
          (started /\ Deliver(r, d) /\ IsPinch(r[1])) =>
             /\ Len(heap') > Len(heap)
             /\ heap'[Len(heap) + 1] =
                  [ active |-> TRUE, time |-> 0, color |-> SparkColor,
                    inScene |-> TRUE, disposed |-> 0, opacity |-> OpacityOne,
                    position |-> << (50 - r[1].indexTip[1]) * 10,
                                    (50 - r[1].indexTip[2]) * 6,
                                    0 >> ]
             /\ Len(activeFireworks') > Len(activeFireworks)
             /\ activeFireworks'[Len(activeFireworks) + 1] = Len(heap) + 1
             /\ Cardinality({ id \in NewIds : heap'[id].color = SparkColor }) = 1
             /\ { id \in NewIds : heap'[id].color = BurstColor } = {}
             /\ lastPinchState'
      ]_vars

\* two held pinch frames at the index tip (0.2, 0.5): two sparks at (30, 0, 0)
C4_Witness ==
    /\ Len(heap) = 2
    /\ activeFireworks = <<1, 2>>
    /\ \A id \in 1..2 : /\ heap[id].color = SparkColor
                        /\ heap[id].position = <<300, 0, 0>>
    /\ lastPinchState
    /\ statusText = StatusPinching

----------------------------------------------------------------------------
(* C5: a result without a hand leaves the pinch state as it was and spawns *)
(* no Burst.                                                               *)
C5_NoHandKeepsState ==
    [][ (started /\ Deliver(<<>>, <<>>)) =>
          /\ lastPinchState' = lastPinchState
          /\ heap' = heap
          /\ activeFireworks' = activeFireworks
      ]_vars

\* the hand vanished while pinching: the status is idle, the state PINCHING
C5_Witness ==
    /\ statusText = StatusIdle
    /\ lastPinchState
    /\ activeFireworks # <<>>

----------------------------------------------------------------------------
(* C6 as claimed: the Registry changes only in a tick.                     *)
C6_OnlyTicksMutate ==
    [][ activeFireworks' # activeFireworks => TickStep ]_vars

(* C6, amended: Bursts leave the Registry only in a tick.  The onResults   *)
(* and mousedown handlers run between ticks and push onto the Registry at  *)
(* once; a step that is no tick keeps every Burst of the Registry, in      *)
(* place and untouched, and only appends.                                  *)
C6_OnlyTicksRemove ==
    [][ ~TickStep =>
          /\ Len(activeFireworks') >= Len(activeFireworks)
          /\ \A k \in 1..Len(activeFireworks) :
               activeFireworks'[k] = activeFireworks[k]
          /\ \A k \in (Len(activeFireworks) + 1)..Len(activeFireworks') :
               activeFireworks'[k] \in NewIds
          /\ \A id \in 1..Len(heap) : heap'[id] = heap[id]
      ]_vars

\* a click between two ticks has pushed a Burst behind one that has aged
C6_Witness ==
    /\ activeFireworks = <<1, 2>>
    /\ heapAtTick = 1
    /\ heap[1].time > 0
    /\ heap[2].time = 0
    /\ heap[2].color = ClickColor

----------------------------------------------------------------------------
(* C7 as claimed: only the latest result of an interval between two ticks  *)
(* counts.  One result has one hand and spawns at most one Burst in its    *)
(* pinch branch, so an interval holds at most one such Burst.              *)
C7_LatestResultOnly ==
    Cardinality(PinchBurstsSinceTick(heap)) <= 1

(* C7, amended: every result is reduced when it is delivered and its       *)
(* Bursts are pushed at once; the Bursts of an interval accumulate over    *)
(* all results delivered in it.  A result adds one pinch-branch Burst to   *)
(* those of the interval if it has a hand that pinches or ends a pinch,    *)
(* and none otherwise, and never takes one away.                           *)
C7_EveryResultCounts ==
    [][ \A r \in Results : \A d \in DrawsFor(r) :
          (started /\ Deliver(r, d)) =>
             /\ PinchBurstsSinceTick(heap) \subseteq PinchBurstsSinceTick(heap')
             /\ Cardinality(PinchBurstsSinceTick(heap')) =
                  Cardinality(PinchBurstsSinceTick(heap))
                    + (IF Len(r) > 0 /\ (IsPinch(r[1]) \/ lastPinchState)
                       THEN 1 ELSE 0)
      ]_vars

\* two pinch results delivered in one interval: two sparks
C7_Witness ==
    /\ heapAtTick = 0
    /\ Cardinality(PinchBurstsSinceTick(heap)) = 2
    /\ \A id \in 1..2 : heap[id].color = SparkColor

----------------------------------------------------------------------------
(* C8 as claimed: the background star is spawned before the Registry is    *)
(* advanced, so it is advanced by the dt of the tick that spawned it.      *)
C8_StarAdvancedInSameTick ==
    [][ (TickStep /\ Len(heap') > Len(heap)) =>
          heap'[Len(heap')].time = lastTime' - lastTime
      ]_vars

(* C8, amended: animate advances the Registry first and samples the        *)
(* background star afterwards.  The star a tick spawns is pushed last, is  *)
(* not advanced by that tick and has time 0 when the tick ends.            *)
C8_StarSpawnedAfterAdvance ==
    [][ (TickStep /\ Len(heap') > Len(heap)) =>
          /\ Len(heap') = Len(heap) + 1
          /\ heap'[Len(heap')] = Firework(heap'[Len(heap')].position, StarColor)
          /\ LogEntries(updateLog', Len(heap')) = {}
          /\ activeFireworks' # <<>>
          /\ activeFireworks'[Len(activeFireworks')] = Len(heap')
      ]_vars

\* a tick with dt > 0 advanced a Burst and spawned a star, which has time 0
C8_Witness ==
    /\ activeFireworks = <<1, 2>>
    /\ heapAtTick = 2
    /\ heap[2].color = StarColor
    /\ heap[2].time = 0
    /\ updateLog = <<[id |-> 1, time |-> heap[1].time]>>
    /\ heap[1].time >= Quantum

----------------------------------------------------------------------------
(* C9 as claimed: every tick leaves every Burst of the Registry strictly   *)
(* older, also a tick whose timestamp equals the previous one.             *)
C9_AgeStrictlyIncreases ==
    [][ TickStep =>
          \A id \in 1..Len(heap) :
            InRegistry(activeFireworks, id) =>
              \A k \in LogEntries(updateLog', id) :
                updateLog'[k].time > heap[id].time
      ]_vars

(* C9, amended: a tick adds its dt = time - lastTime >= 0 to the age of    *)
(* every Burst of the Registry.  The age never decreases; it is strictly   *)
(* greater after the tick exactly if the timestamp is later than the       *)
(* previous one, and unchanged if the timestamps are equal.  The initial   *)
(* animate(0) finds the Registry empty.                                    *)
C9_AgeAdvancesByDelta ==
    [][ TickStep =>
          /\ lastTime' >= lastTime
          /\ ~started => activeFireworks = <<>>
          /\ \A id \in 1..Len(heap) :
               InRegistry(activeFireworks, id) =>
                 /\ LogEntries(updateLog', id) # {}
                 /\ \A k \in LogEntries(updateLog', id) :
                      /\ updateLog'[k].time = heap[id].time + (lastTime' - lastTime)
                      /\ (updateLog'[k].time > heap[id].time) <=> (lastTime' > lastTime)
                      /\ InRegistry(activeFireworks', id)
                           => heap'[id].time = updateLog'[k].time
      ]_vars

\* a tick whose timestamp equals the previous one has advanced a Burst
\* spawned since: update was called and the age is still 0
C9_Witness ==
    /\ activeFireworks # <<>>
    /\ heapAtTick = Len(heap)
    /\ lastTime >= Quantum
    /\ updateLog = <<[id |-> activeFireworks[1], time |-> 0]>>

----------------------------------------------------------------------------
(* C10: while frames with a later timestamp keep coming, every Firework    *)
(* that is constructed is eventually out of the Registry, removed from     *)
(* the scene and disposed.                                                 *)
Disposed(id) ==
    /\ id <= Len(heap)
    /\ ~InRegistry(activeFireworks, id)
    /\ ~heap[id].active
    /\ ~heap[id].inScene
    /\ heap[id].disposed = 1

C10_EveryBurstExpires ==
    \A id \in 1..MaxFireworks : (id <= Len(heap)) ~> Disposed(id)

\* every Firework the behaviour constructed has expired and is disposed
C10_Witness ==
    /\ Len(heap) = MaxFireworks
    /\ \A id \in 1..Len(heap) : Disposed(id)
    /\ activeFireworks = <<>>

----------------------------------------------------------------------------
\* the values delta * 1000 that animate can pass to update
Deltas == { u - t : t \in {0}, u \in NextTimes(0) }

(* C11: the renderer-side resource of every Burst is added exactly once,   *)
(* by the constructor, and released exactly once, by the update call that  *)
(* first returns with time > FIREWORK_LIFETIME: a Firework is in the scene *)
(* and undisposed when constructed, is never added again, is removed from  *)
(* the scene and disposed in one and the same step, at most once, and only *)
(* in such a tick.  update on a Firework that is dead returns it as it is  *)
(* and disposes nothing.                                                   *)
C11_ResourceAddedAndReleasedOnce ==
    [][ \A id \in 1..Len(heap') :
          /\ id > Len(heap) =>
                /\ heap'[id].active
                /\ heap'[id].inScene
                /\ heap'[id].disposed = 0
          /\ id <= Len(heap) =>
                /\ heap'[id].inScene => heap[id].inScene
                /\ heap'[id].disposed \in {heap[id].disposed, 1}
                /\ (heap'[id].disposed # heap[id].disposed)
                     <=> (heap[id].inScene /\ ~heap'[id].inScene)
                /\ (heap'[id].disposed # heap[id].disposed) =>
                     /\ TickStep
                     /\ heap[id].time <= FIREWORK_LIFETIME
                     /\ \E k \in LogEntries(updateLog', id) :
                          updateLog'[k].time > FIREWORK_LIFETIME
          /\ heap'[id].active <=> heap'[id].inScene
          /\ heap'[id].active <=> (heap'[id].disposed = 0)
          /\ ~heap'[id].active =>
                \A delta \in Deltas :
                  /\ update(heap'[id], delta) = heap'[id]
                  /\ update(heap'[id], delta).disposed = 1
      ]_vars

\* one Burst has expired and is released once; a later one is in the scene
C11_Witness ==
    /\ Len(heap) = 2
    /\ ~heap[1].active /\ ~heap[1].inScene /\ heap[1].disposed = 1
    /\ heap[2].active /\ heap[2].inScene /\ heap[2].disposed = 0
    /\ heap[2].time > 0
    /\ activeFireworks = <<2>>

----------------------------------------------------------------------------
(* C12: whatever deltas update is called with, the opacity of a Firework   *)
(* of every page is within [0, 1] after construction and after every       *)
(* update call, and on the two pages whose update does not flicker it      *)
(* never increases from one call to the next.                              *)
C12_OpacityInRangeAndFading ==
    /\ [](probe.fw.opacity \in 0..OpacityOne)
    /\ [][ probe.page # "flicker" => probe'.fw.opacity <= probe.fw.opacity ]_vars

\* a Firework of script.js has outlived its lifetime: its opacity is 0, not
\* negative
C12_Witness ==
    /\ probe.page = "script"
    /\ probe.fw.time > FIREWORK_LIFETIME
    /\ ~probe.fw.active
    /\ probe.fw.opacity = 0

----------------------------------------------------------------------------
\* the call animate(time) is one the browser can make in this state
IsTickAt(time) ==
    IF started THEN time \in NextTimes(lastTime) ELSE time = 0

(* C13: a tick whose star draw fails constructs no Firework and pushes     *)
(* nothing: the Registry does not grow, and an empty Registry is empty     *)
(* after the tick.  Until the first Firework is constructed the Registry   *)
(* is empty, however many ticks have run.                                  *)
C13_TickAloneCreatesNothing ==
    /\ [](heap = <<>> => activeFireworks = <<>>)
    /\ [][ \A draw \in StarDraws : \A time \in NextTimes(lastTime) :
            (~draw.hit /\ IsTickAt(time) /\ Animate(time, draw)) =>
               /\ Len(heap') = Len(heap)
               /\ Len(activeFireworks') <= Len(activeFireworks)
               /\ \A k \in 1..Len(activeFireworks') :
                    InRegistry(activeFireworks, activeFireworks'[k])
               /\ activeFireworks = <<>> => activeFireworks' = <<>>
         ]_vars

\* ticks up to the horizon without a trigger: nothing was ever constructed
C13_Witness ==
    /\ started
    /\ lastTime >= ResumeGap
    /\ heap = <<>>
    /\ activeFireworks = <<>>
    /\ heapAtTick = 0

----------------------------------------------------------------------------
\* positions and colours of launchFirework calls
LaunchPositions ==
    { clickPoint(e, viewport) : e \in MouseEvents(viewport) }
      \cup { d.position : d \in StarDraws }
      \cup { worldPoint(i) : i \in IndexTips }

LaunchColors == {SparkColor, BurstColor, PalmColor, StarColor, ClickColor}

(* C14: launchFirework never drops or refuses a request.  In every state,  *)
(* whatever the size of the Registry, a call constructs one Firework and   *)
(* returns with the Registry one longer: the Fireworks it held, in place,  *)
(* and the new one last.  In every step each Firework constructed is in    *)
(* the Registry afterwards, and a handler that is no tick lengthens the    *)
(* Registry by the number of Fireworks it constructed.                     *)
C14_SpawnNeverRefused ==
    /\ [](\A position \in LaunchPositions, color \in LaunchColors :
            \E e \in {launchFirework([heap |-> heap, active |-> activeFireworks],
                                     position, color)} :
               /\ Len(e.active) = Len(activeFireworks) + 1
               /\ \A k \in 1..Len(activeFireworks) : e.active[k] = activeFireworks[k]
               /\ e.active[Len(e.active)] = Len(heap) + 1
               /\ Len(e.heap) = Len(heap) + 1
               /\ e.heap[Len(e.heap)] = Firework(position, color))
    /\ [][ /\ \A id \in NewIds : InRegistry(activeFireworks', id)
           /\ ~TickStep =>
                Len(activeFireworks') = Len(activeFireworks) + Cardinality(NewIds)
         ]_vars

\* the Registry holds as many Fireworks as the model constructs, pushed by
\* a click and a gesture between two ticks
C14_Witness ==
    /\ Len(activeFireworks) = MaxFireworks
    /\ heapAtTick = 0
    /\ \E id \in 1..Len(heap) : heap[id].color = ClickColor
    /\ \E id \in 1..Len(heap) : heap[id].color = SparkColor

----------------------------------------------------------------------------
(* C15: an exception thrown by an update call ends that animate call but   *)
(* not the render loop: after a tick that threw, and from then on, the     *)
(* next frame is requested and its animate call can run.                   *)
C15_FailedTickKeepsLoop ==
    throws > 0 => (frameRequested /\ ENABLED Frame)

\* update threw on the only Firework there has been, and ticks after that
\* one advanced it until it expired and was disposed
C15_Witness ==
    /\ throws > 0
    /\ frameRequested
    /\ Len(heap) = 1
    /\ Disposed(1)
    /\ updateLog # <<>>

----------------------------------------------------------------------------
(* C16 as claimed: a result whose hand lacks landmark 4, 8 or 12 raises no *)
(* error, spawns no Burst and leaves the pinch state unchanged.            *)
C16_PartialHandIsNoHand ==
    [][ \A hand \in PartialHands :
          (started /\ throws < MaxThrows /\ DeliverPartial(hand)) =>
             /\ throws' = throws
             /\ heap' = heap
             /\ activeFireworks' = activeFireworks
             /\ lastPinchState' = lastPinchState
      ]_vars

----------------------------------------------------------------------------
\* the hand's index tip and middle tip are further apart than 0.1
IsSpread(hand) ==
    distanceSq(hand.indexTip, hand.middleTip) > SpreadThreshold * SpreadThreshold

\* the Fireworks of colour c among those constructed by the step
NewOfColor(c) == { id \in NewIds : heap'[id].color = c }

----------------------------------------------------------------------------
\* the normalised screen point (clientX / innerWidth, clientY / innerHeight)
\* of a mouse event, in hundredths
screenPoint(e, vp) ==
    << (e.clientX * 100) \div vp.innerWidth, (e.clientY * 100) \div vp.innerHeight >>

(* C18 as claimed: a click at the normalised screen point (u, v) spawns    *)
(* its Burst at the world point the reducer computes for an index tip at   *)
(* (u, v).                                                                 *)
C18_ClickMapsLikeGesture ==
    [][ \A e \in MouseEvents(viewport) :
          (started /\ Click(e)) =>
             heap'[Len(heap')].position = worldPoint(screenPoint(e, viewport))
      ]_vars

(* C18, amended: the click mapping has the scales of the gesture mapping   *)
(* but is not mirrored: a click at (u, v) spawns its Burst at              *)
(* ((u - 0.5) * 100, (0.5 - v) * 60, 0).  Its y is the y of the gesture    *)
(* mapping and its x the negative of the x of the gesture mapping, so the  *)
(* two agree exactly for u = 0.5.                                          *)
C18_ClickMapsUnmirrored ==
    [][ \A e \in MouseEvents(viewport) :
          (started /\ Click(e)) =>
             \E uv \in {screenPoint(e, viewport)} :
                /\ Len(heap') = Len(heap) + 1
                /\ heap'[Len(heap')].position =
                     << (uv[1] - 50) * 10, (50 - uv[2]) * 6, 0 >>
                /\ heap'[Len(heap')].position[1] = 0 - worldPoint(uv)[1]
                /\ heap'[Len(heap')].position[2] = worldPoint(uv)[2]
                /\ (heap'[Len(heap')].position = worldPoint(uv)) <=> (uv[1] = 50)
      ]_vars

\* a click at (0.25, 0.25) has spawned a Burst at (-25, 15, 0); the spark of
\* an index tip there would be at (25, 15, 0)
C18_Witness ==
    /\ heap # <<>>
    /\ heap[Len(heap)].active
    /\ heap[Len(heap)].color = ClickColor
    /\ heap[Len(heap)].position = <<-250, 150, 0>>
    /\ worldPoint(<<25, 25>>) = <<250, 150, 0>>

----------------------------------------------------------------------------
(* C19: a click at the exact centre of the window, clientX = innerWidth/2  *)
(* and clientY = innerHeight/2, spawns one Burst, pushed last, whose       *)
(* origin has world x = 0 and world y = 0.                                 *)
C19_CentreClickAtOrigin ==
    [][ \A e \in MouseEvents(viewport) :
          ( /\ started
            /\ 2 * e.clientX = viewport.innerWidth
            /\ 2 * e.clientY = viewport.innerHeight
            /\ Click(e) ) =>
             /\ Len(heap') = Len(heap) + 1
             /\ heap'[Len(heap')].position[1] = 0
             /\ heap'[Len(heap')].position[2] = 0
             /\ activeFireworks' = Append(activeFireworks, Len(heap'))
      ]_vars

\* a click at the centre has spawned a Burst at the origin
C19_Witness ==
    /\ heap # <<>>
    /\ heap[Len(heap)].active
    /\ heap[Len(heap)].color = ClickColor
    /\ heap[Len(heap)].position = <<0, 0, 0>>
    /\ InRegistry(activeFireworks, Len(heap))

----------------------------------------------------------------------------
(* C20: a resize leaves the Registry as it is, the same Fireworks in the   *)
(* same order with the same fields, and leaves the pinch state as it is.   *)
C20_ResizeKeepsRegistry ==
    [][ viewport' # viewport =>
          /\ activeFireworks' = activeFireworks
          /\ heap' = heap
          /\ lastPinchState' = lastPinchState
          /\ lastTime' = lastTime
      ]_vars

\* the window was resized after a tick that advanced a Burst: no handler
\* other than resize leaves the log empty, the heap and the status as is
C20_Witness ==
    /\ updateLog = <<>>
    /\ heapAtTick = Len(heap)
    /\ statusText = StatusInitial
    /\ activeFireworks # <<>>
    /\ heap[activeFireworks[1]].time > 0

----------------------------------------------------------------------------
\* |x| and the squared magnitude of a velocity
abs(x) == IF x >= 0 THEN x ELSE 0 - x

magnitudeSq(v) == v[1] * v[1] + v[2] * v[2] + v[3] * v[3]

(* C21: an update call never increases the magnitude of the velocity of a  *)
(* particle, nor that of any component, and never turns a component round. *)
(* On an active Firework every component becomes its product with the drag *)
(* factor of the page, whatever delta is: gravity does not enter the       *)
(* velocity.  On a dead Firework the velocity stays as it is.              *)
C21_VelocityNeverGrows ==
    [][ /\ magnitudeSq(probe'.velocityData) <= magnitudeSq(probe.velocityData)
        /\ \A c \in 1..3 :
             /\ abs(probe'.velocityData[c]) <= abs(probe.velocityData[c])
             /\ probe'.velocityData[c] * probe.velocityData[c] >= 0
             /\ probe.fw.active =>
                  probe'.velocityData[c] =
                    roundDiv(probe.velocityData[c] * dragOf(probe.page), 100)
             /\ ~probe.fw.active =>
                  probe'.velocityData[c] = probe.velocityData[c]
      ]_vars

\* two update calls of script.js with the largest delta have slowed a
\* falling particle from 2.50 to 2.36: gravity has not sped it up
C21_Witness ==
    /\ probe.page = "script"
    /\ probe.velocityData = <<0, -236, 0>>
    /\ probe.fw.time = 2 * MaxProbeSteps * ProbeStep

----------------------------------------------------------------------------
\* a result with a hand that does not pinch is delivered and constructs a
\* release burst
ReleaseStep ==
    /\ started
    /\ \E r \in OneHand : \E d \in DrawsFor(r) :
         /\ ~IsPinch(r[1])
         /\ Deliver(r, d)
         /\ NewOfColor(BurstColor) # {}

(* C22: stale release.  The status is idle exactly after a result without  *)
(* a hand.  While the state is PINCHING and the last result had no hand, a *)
(* further result without a hand keeps both, and the first result with a   *)
(* hand that does not pinch spawns exactly one PinchRelease burst, first,  *)
(* at the world point of that frame's index tip, spawns no spark and       *)
(* leaves the state NOT_PINCHING.                                          *)
C22_StaleRelease ==
    [][ /\ (started /\ Deliver(<<>>, <<>>)) =>
             /\ statusText' = StatusIdle
             /\ lastPinchState' = lastPinchState
        /\ \A r \in OneHand : \A d \in DrawsFor(r) :
             (started /\ Deliver(r, d)) =>
                /\ statusText' # StatusIdle
                /\ (statusText = StatusIdle /\ lastPinchState /\ ~IsPinch(r[1])) =>
                     /\ Len(heap') > Len(heap)
                     /\ heap'[Len(heap) + 1] =
                          Firework(worldPoint(r[1].indexTip), BurstColor)
                     /\ activeFireworks'[Len(activeFireworks) + 1] = Len(heap) + 1
                     /\ Cardinality(NewOfColor(BurstColor)) = 1
                     /\ NewOfColor(SparkColor) = {}
                     /\ ~lastPinchState'
      ]_vars

\* the hand vanished while pinching, the spark of the pinch has aged since,
\* and a result with a hand that does not pinch can now release
C22_Witness ==
    /\ statusText = StatusIdle
    /\ lastPinchState
    /\ activeFireworks # <<>>
    /\ heap[activeFireworks[1]].color = SparkColor
    /\ heap[activeFireworks[1]].time > 0
    /\ ENABLED ReleaseStep

----------------------------------------------------------------------------
----------------------------------------------------------------------------
(* C24: whenever no animate call is running, every Firework of the         *)
(* Registry is active, in the scene, undisposed and of age at most         *)
(* FIREWORK_LIFETIME, and every active Firework is in the Registry.        *)
C24_RegistryHoldsOnlyLive ==
    /\ \A k \in 1..Len(activeFireworks) :
         /\ activeFireworks[k] \in 1..Len(heap)
         /\ heap[activeFireworks[k]].active
         /\ heap[activeFireworks[k]].inScene
         /\ heap[activeFireworks[k]].disposed = 0
         /\ heap[activeFireworks[k]].time <= FIREWORK_LIFETIME
    /\ \A id \in 1..Len(heap) :
         heap[id].active => InRegistry(activeFireworks, id)

\* a tick removed one Firework and left one whose age is the lifetime
C24_Witness ==
    /\ Len(heap) = 2
    /\ Len(activeFireworks) = 1
    /\ heap[activeFireworks[1]].time = FIREWORK_LIFETIME
    /\ heap[activeFireworks[1]].opacity = 0
    /\ \E id \in 1..2 : ~heap[id].active

----------------------------------------------------------------------------
\* the Fireworks constructed by handlers since the last animate call
SpawnedSinceTick == (heapAtTick + 1)..Len(heap)

\* an animate call after a gap longer than the lifetime
ResumeStep ==
    /\ Frame
    /\ lastTime' - lastTime > FIREWORK_LIFETIME

(* C25: a Firework spawned by a handler between two ticks is advanced by   *)
(* the next tick by that tick's whole delta = time - lastTime, wherever    *)
(* in the interval it was spawned: update is called on it once and its     *)
(* age when the call returns is delta.  If delta exceeds the lifetime the  *)
(* Firework is removed from the Registry and the scene and disposed in     *)
(* that tick, its first; otherwise it stays, of age delta.                 *)
C25_FirstTickAgesByWholeDelta ==
    [][ TickStep =>
          \A id \in SpawnedSinceTick :
            /\ heap[id].time = 0
            /\ heap[id].color \in {SparkColor, BurstColor, PalmColor, ClickColor}
            /\ Cardinality(LogEntries(updateLog', id)) = 1
            /\ \A k \in LogEntries(updateLog', id) :
                 updateLog'[k].time = lastTime' - lastTime
            /\ IF lastTime' - lastTime > FIREWORK_LIFETIME
               THEN /\ ~InRegistry(activeFireworks', id)
                    /\ ~heap'[id].active
                    /\ ~heap'[id].inScene
                    /\ heap'[id].disposed = 1
               ELSE /\ InRegistry(activeFireworks', id)
                    /\ heap'[id].time = lastTime' - lastTime
      ]_vars

\* a click has spawned a Firework since the last tick, ticks have run
\* before, and the next tick can come after a gap longer than the lifetime
C25_Witness ==
    /\ SpawnedSinceTick # {}
    /\ heap[Len(heap)].color = ClickColor
    /\ lastTime > 0
    /\ ENABLED ResumeStep

====
